---- MODULE Spec2Model ----
(***************************************************************************)
(* Sandbox manager of Bkbest/pandora (src/app/sandbox_manager.py).         *)
(*                                                                         *)
(* A sandbox is a workspace directory on the host plus an execution unit   *)
(* (a docker container) named after the sandbox id.  Every manager         *)
(* operation runs in its own request thread with no locking, so each       *)
(* operation is modelled as a sequence of atomic steps, one per access to  *)
(* the host file system or to the container runtime.                       *)
(*                                                                         *)
(* Fault model: the two runtime calls the code wraps in a handler          *)
(* (containers.run in create_sandbox, container.remove in delete_sandbox)  *)
(* and exec_run may fail; the host file system itself does not fail other  *)
(* than by the errors the state of the tree produces (missing parent,      *)
(* existing directory, ...).  The workspace holds directories and regular  *)
(* files only (no symbolic links), so Path.resolve() is lexical.           *)
(* exec_run is two steps, the start of the command and its end; when the   *)
(* unit is removed under a running command the runtime either raises       *)
(* NotFound or reports the exit status of the killed command.  write_text  *)
(* is two steps as well: open(mode="w") truncates, and the data reaches    *)
(* the opened file at offset 0 when it is written and closed.  Of the      *)
(* commands, pip install that ends with exit code 0 puts the package under *)
(* its target directory in the mounted workspace; python runs of a module  *)
(* are not taken to change the workspace.                                  *)
(*                                                                         *)
(* A path string is the sequence of its "/"-separated segments:            *)
(*   ""  = <<"">>,  "/" = <<"","">>,  "a/m.py" = <<"a","m.py">>,           *)
(*   "/m.py" = <<"","m.py">>,  "a/.." = <<"a","..">>.                      *)
(***************************************************************************)
EXTENDS Integers, Sequences, FiniteSets, TLC

\* ---------------------------------------------------------------- bounds
NumProcs == 2
NumIds == 2
MaxSegs == 2

\* ------------------------------------------------------------- universes
IdNames == <<"s1", "s2", "s3", "s4">>
Procs == 1..NumProcs
IDs == {IdNames[i] : i \in 1..NumIds}
Names == {"a", "m.py"}
Segs == Names \cup {"", ".", ".."}
Contents == {"c1", "c2"}

\* the text of each content, and of what interleaved writes can leave in a file:
\* "c1" is shorter than "c2"
Truncated == ""
Mixed == "c1 then the rest of c2"
PkgText == "code of package pkg"
FileTexts == Contents \cup {Truncated, Mixed, PkgText}
Chars ==
    [t \in FileTexts |->
        IF t = "c1" THEN <<"x">>
        ELSE IF t = "c2" THEN <<"y", "z">>
        ELSE IF t = Mixed THEN <<"x", "z">>
        ELSE IF t = PkgText THEN <<"k">>
        ELSE <<>>]

\* the package lists of install_packages requests
PkgLists == {<<>>, <<"pkg">>}

RECURSIVE SeqsUpTo(_, _)
SeqsUpTo(S, n) ==
    IF n = 0 THEN {<<>>}
    ELSE LET shorter == SeqsUpTo(S, n - 1)
         IN  shorter \cup {Append(q, x) : q \in shorter, x \in S}

\* every request path of at most MaxSegs segments
AllPaths == SeqsUpTo(Segs, MaxSegs) \ {<<>>}

\* ------------------------------------------------------ path arithmetic
IsPrefix(a, b) == Len(a) <= Len(b) /\ SubSeq(b, 1, Len(a)) = a
IsProperPrefix(a, b) == Len(a) < Len(b) /\ IsPrefix(a, b)
Parent(q) == SubSeq(q, 1, Len(q) - 1)

\* self.sandbox_root, an absolute canonical path on the host
SandboxRoot == <<"srv", "sandboxes">>

\* the in-unit mount point of the workspace
WorkdirInContainer == <<"workspace">>

sandbox_dir(sandbox_id) == Append(SandboxRoot, sandbox_id)

\* rel_path.lstrip("/\\"): leading separators are leading empty segments
RECURSIVE lstrip(_)
lstrip(rel_path) ==
    IF Len(rel_path) > 1 /\ Head(rel_path) = ""
    THEN lstrip(Tail(rel_path))
    ELSE rel_path

\* (stack / segs).resolve(): empty and "." segments vanish, ".." pops one
\* component and stays at the file-system root
RECURSIVE Resolve(_, _)
Resolve(stack, segs) ==
    IF segs = <<>> THEN stack
    ELSE LET s == Head(segs)
         IN  IF s = "" \/ s = "."
             THEN Resolve(stack, Tail(segs))
             ELSE IF s = ".."
             THEN Resolve(IF stack = <<>> THEN <<>> ELSE Parent(stack), Tail(segs))
             ELSE Resolve(Append(stack, s), Tail(segs))

\* Path(a) / b: an absolute right operand replaces the left one
PathJoin(a, b) ==
    IF Len(b) > 1 /\ Head(b) = "" THEN Resolve(<<>>, b) ELSE Resolve(a, b)

\* execute: pkg_dir = str(Path(self.workdir_in_container) / ".python_packages"), the PYTHONPATH
pkg_dir == PathJoin(WorkdirInContainer, <<".python_packages">>)

\* an install target that is not the directory execute puts on the search path
target_dir_Elsewhere == PathJoin(WorkdirInContainer, <<"site-packages">>)

\* install_packages: target_dir = str(Path(self.workdir_in_container) / ".python_packages")
target_dir == PathJoin(WorkdirInContainer, <<".python_packages">>)

\* volumes={str(host_dir): {"bind": self.workdir_in_container, "mode": "rw"}}: the host
\* location of an in-unit path under the mount
HostOf(sandbox_id, q) ==
    sandbox_dir(sandbox_id) \o SubSeq(q, Len(WorkdirInContainer) + 1, Len(q))

\* where pip install --target d puts the package of the request
PkgFile(d, pkgs) == Append(d, pkgs[1])

\* -------------------------------------------------------------- results
Ok == "ok"
InvalidPath == "400 Invalid path"
OnlyPy == "400 Only .py files can be executed"
NotAFile == "400 Path is not a file"
SandboxNotFound == "404 Sandbox not found"
DirMissing == "404 Sandbox directory missing"
DirNotFound == "404 Directory not found"
FileNotFound == "404 File not found"
RuntimeErr == "docker APIError"
OSErr == "OSError"
NameConflict == "docker APIError 409 Conflict"
DockerNotFound == "docker NotFound"
None == "none"
Exit0 == "exit 0"
Exit1 == "exit 1"
ExitKilled == "exit 137"
NoPackages == "400 No packages provided"
InstallFailed == "400 Package installation failed, with exit_code, stdout, stderr"

\* safe_path with the "p == base_dir" test dropped: the root passes like any descendant
safe_path_NoRootCheck(base_dir, rel_path, allow_base) ==
    LET p == Resolve(base_dir, lstrip(rel_path))
    IN  IF IsPrefix(base_dir, p)
        THEN [err |-> None, p |-> p]
        ELSE [err |-> InvalidPath, p |-> p]

\* SandboxManager.safe_path: InvalidPath, or the resolved location
safe_path(base_dir, rel_path, allow_base) ==
    LET rel == lstrip(rel_path)
        p == Resolve(base_dir, rel)
    IN  IF p = base_dir
        THEN IF allow_base THEN [err |-> None, p |-> p]
             ELSE [err |-> InvalidPath, p |-> p]
        ELSE IF IsProperPrefix(base_dir, p)
        THEN [err |-> None, p |-> p]
        ELSE [err |-> InvalidPath, p |-> p]

\* path.endswith(".py"): the suffix lies in the last segment
endswith_py(path) == path[Len(path)] = "m.py"

\* ---------------------------------------------------------------- state
VARIABLES
    fs,       \* host file system under the sandbox root: node -> "absent", "dir" or a file's text
    units,    \* sandbox ids whose execution unit (container) exists in the runtime
    call,     \* per request thread: the manager call it runs and where it stands
    deleted,  \* history: ids whose delete_sandbox returned normally, with no create_sandbox
              \* step on the id since that delete_sandbox began
    lastw,    \* history: the latest upsert_file that returned normally, until a call that can
              \* change its file (see Track) takes a step
    installed \* history, per id: "yes" since an install_packages got exit code 0, "changed"
              \* once an upsert_file or delete_file on a path under the install target takes
              \* a step, "no" once a delete_sandbox of the id takes a step

vars == <<fs, units, call, deleted, lastw, installed>>

NoPath == <<>>

\* every location a workspace can hold
Nodes ==
    {sandbox_dir(id) \o q : id \in IDs, q \in SeqsUpTo(Names, MaxSegs)}
    \cup {HostOf(id, q) : id \in IDs, q \in {pkg_dir, PkgFile(pkg_dir, <<"pkg">>)}}

exists(f, n) == n \in Nodes /\ f[n] # "absent"
is_dir(f, n) == n \in Nodes /\ f[n] = "dir"
is_file(f, n) == n \in Nodes /\ f[n] \in FileTexts

\* shutil.rmtree(self.sandbox_dir(sandbox_id), ignore_errors=True)
rmtree(f, sandbox_id) ==
    [n \in Nodes |-> IF IsPrefix(sandbox_dir(sandbox_id), n) THEN "absent" ELSE f[n]]

\* d.mkdir(parents=True, exist_ok=True) raises when d or an ancestor is a regular file
mkdir_fails(f, d) == \E k \in 1..Len(d) : is_file(f, SubSeq(d, 1, k))

\* d.mkdir(parents=True, exist_ok=True): d and every missing ancestor become directories
mkdir_parents(f, d) ==
    [n \in Nodes |-> IF IsPrefix(n, d) THEN "dir" ELSE f[n]]

\* the sandboxes whose workspace directory exists
dirs == {id \in IDs : exists(fs, sandbox_dir(id))}

Idle == [pc |-> "idle", op |-> None, sid |-> None, path |-> NoPath, content |-> None,
         result |-> None, err |-> None, rt |-> 0, mut |-> FALSE, after |-> FALSE,
         quiet |-> TRUE, cmdpath |-> NoPath, pkgs |-> <<>>, ran |-> "no", exit |-> None, linked |-> FALSE,
     pypath |-> NoPath, importable |-> FALSE,
         out |-> <<>>]

\* a request thread enters a manager call
Begin(o, id, pth, c, label) ==
    [pc |-> label, op |-> o, sid |-> id, path |-> pth, content |-> c,
     result |-> None, err |-> None, rt |-> 0, mut |-> FALSE, after |-> id \in deleted,
     quiet |-> TRUE, cmdpath |-> NoPath, pkgs |-> <<>>, ran |-> "no", exit |-> None, linked |-> FALSE,
     pypath |-> NoPath, importable |-> FALSE,
     out |-> <<>>]

\* the call returns r (a value or a raised error) to its caller
Done(rec, r) == [rec EXCEPT !.pc = "done", !.result = r]

NoWrite == [sid |-> None, node |-> NoPath, content |-> None]

Init ==
    /\ fs = [n \in Nodes |-> "absent"]
    /\ units = {}
    /\ call = [p \in Procs |-> Idle]
    /\ deleted = {}
    /\ lastw = NoWrite
    /\ installed = [id \in IDs |-> "no"]

\* a create_sandbox step on id ends the "deleted and not created since" history of id
Revive(c, id) ==
    [q \in Procs |-> IF c[q].sid = id THEN [c[q] EXCEPT !.after = FALSE, !.quiet = FALSE]
                     ELSE c[q]]

\* the file a writer holds open is unlinked once its path stops naming a regular file
Orphan(c, f2) ==
    [q \in Procs |->
        IF c[q].pc = "upsert_flush"
           /\ ~is_file(f2, Resolve(sandbox_dir(c[q].sid), lstrip(c[q].path)))
        THEN [c[q] EXCEPT !.linked = FALSE]
        ELSE c[q]]

\* removing the unit of id kills the commands running in it
Kill(c, id) ==
    [q \in Procs |-> IF c[q].sid = id /\ c[q].ran = "started"
                     THEN [c[q] EXCEPT !.ran = "killed"]
                     ELSE c[q]]

\* the location a file operation works on: safe_path's result
Target(c) == safe_path(sandbox_dir(c.sid), c.path, c.op = "list").p

\* lastw after a step of thread p: set when an upsert_file returns normally; reset by a step
\* of an upsert_file or delete_file on the same file, of a command in the same sandbox, or
\* of a create_sandbox or delete_sandbox of the same id
Track(p) ==
    LET c == call'[p]
    IN  IF call[p].pc = "upsert_flush" /\ c.result = Ok
        THEN [sid |-> c.sid, node |-> Target(c), content |-> c.content]
        ELSE IF /\ c.sid = lastw.sid
                /\ \/ c.op \in {"create", "delete", "execute", "install", "main_install"}
                   \/ c.op \in {"upsert", "unlink"} /\ Target(c) = lastw.node
        THEN NoWrite
        ELSE lastw

\* installed after a step of thread p
Mark(p) ==
    LET c == call'[p]
    IN  IF call[p].pc = "install_wait" /\ c.exit = Exit0
        THEN [installed EXCEPT ![c.sid] = "yes"]
        ELSE IF c.op = "delete"
        THEN [installed EXCEPT ![c.sid] = "no"]
        ELSE IF /\ c.op \in {"upsert", "unlink"}
                /\ installed[c.sid] = "yes"
                /\ IsPrefix(HostOf(c.sid, target_dir), Target(c))
        THEN [installed EXCEPT ![c.sid] = "changed"]
        ELSE installed

\* ------------------------------------------------------- create_sandbox
\* create_sandbox whose mkdir accepts an existing directory (exist_ok=True)
CreateSandbox_ExistOk(p, I) ==
    /\ call[p].pc = "idle"
    /\ \E id \in I :
         /\ fs' = [fs EXCEPT ![sandbox_dir(id)] = "dir"]
         /\ call' = [Revive(call, id) EXCEPT
                       ![p] = [Begin("create", id, NoPath, None, "create_run") EXCEPT
                                 !.mut = TRUE, !.after = FALSE]]
         /\ deleted' = deleted \ {id}
         /\ UNCHANGED units
    /\ lastw' = Track(p)
    /\ installed' = Mark(p)

\* uuid4 + host_dir.mkdir(parents=True, exist_ok=False)
CreateSandbox(p, I) ==
    /\ call[p].pc = "idle"
    /\ \E id \in I :
         IF exists(fs, sandbox_dir(id))
         THEN /\ call' = [call EXCEPT ![p] = Done(Begin("create", id, NoPath, None, "idle"), OSErr)]
              /\ UNCHANGED <<fs, units, deleted>>
         ELSE /\ fs' = [fs EXCEPT ![sandbox_dir(id)] = "dir"]
              /\ call' = [Revive(call, id) EXCEPT
                            ![p] = [Begin("create", id, NoPath, None, "create_run") EXCEPT
                                      !.mut = TRUE, !.after = FALSE]]
              /\ deleted' = deleted \ {id}
              /\ UNCHANGED units
    /\ lastw' = Track(p)
    /\ installed' = Mark(p)

\* self.client.containers.run(..., name=name, detach=True, ...)
CreateRun(p) ==
    /\ call[p].pc = "create_run"
    /\ LET id == call[p].sid
           c == Revive(call, id)
       IN  /\ deleted' = deleted \ {id}
           /\ UNCHANGED fs
           /\ \/ /\ id \notin units
                 /\ units' = units \cup {id}
                 /\ call' = [c EXCEPT ![p] = Done([c[p] EXCEPT !.rt = 1], id)]
              \/ /\ UNCHANGED units
                 /\ call' = [c EXCEPT ![p] = [c[p] EXCEPT !.pc = "create_cleanup", !.rt = 1,
                                   !.err = IF id \in units THEN NameConflict ELSE RuntimeErr]]
    /\ lastw' = Track(p)
    /\ installed' = Mark(p)

\* create_sandbox that re-raises without the compensating rmtree
CreateCleanup_NoRmtree(p) ==
    /\ call[p].pc = "create_cleanup"
    /\ LET id == call[p].sid
           c == Revive(call, id)
       IN  /\ deleted' = deleted \ {id}
           /\ call' = [c EXCEPT ![p] = Done(c[p], c[p].err)]
           /\ UNCHANGED <<fs, units>>
    /\ lastw' = Track(p)
    /\ installed' = Mark(p)

\* except Exception: shutil.rmtree(host_dir, ignore_errors=True); raise
CreateCleanup(p) ==
    /\ call[p].pc = "create_cleanup"
    /\ LET id == call[p].sid
           c == Revive(call, id)
       IN  /\ fs' = rmtree(fs, id)
           /\ deleted' = deleted \ {id}
           /\ call' = Orphan([c EXCEPT ![p] = Done(c[p], c[p].err)], fs')
           /\ UNCHANGED units
    /\ lastw' = Track(p)
    /\ installed' = Mark(p)

\* ------------------------------------------------------- delete_sandbox
\* delete_sandbox that treats a missing unit as already deleted
DeleteSandbox_Idempotent(p, I) ==
    /\ call[p].pc = "idle"
    /\ \E id \in I :
         LET b == [Begin("delete", id, NoPath, None, "delete_remove") EXCEPT !.rt = 1]
         IN  /\ call' = [call EXCEPT ![p] = IF id \in units THEN b ELSE Done(b, Ok)]
             /\ UNCHANGED <<fs, units, deleted>>
    /\ lastw' = Track(p)
    /\ installed' = Mark(p)

\* container = self.get_container(sandbox_id)
DeleteSandbox(p, I) ==
    /\ call[p].pc = "idle"
    /\ \E id \in I :
         LET b == [Begin("delete", id, NoPath, None, "delete_remove") EXCEPT !.rt = 1]
         IN  /\ call' = [call EXCEPT ![p] = IF id \in units THEN b ELSE Done(b, SandboxNotFound)]
             /\ UNCHANGED <<fs, units, deleted>>
    /\ lastw' = Track(p)
    /\ installed' = Mark(p)

\* delete_sandbox without the finally: a failed removal skips the rmtree
DeleteRemove_NoFinally(p) ==
    /\ call[p].pc = "delete_remove"
    /\ LET id == call[p].sid
       IN  /\ UNCHANGED <<fs, deleted>>
           /\ \/ /\ id \in units
                 /\ units' = units \ {id}
                 /\ call' = [call EXCEPT ![p] = [@ EXCEPT !.pc = "delete_rmtree", !.mut = TRUE]]
              \/ /\ UNCHANGED units
                 /\ call' = [call EXCEPT ![p] =
                               Done([@ EXCEPT !.err = IF id \in units THEN RuntimeErr
                                                      ELSE DockerNotFound],
                                    IF id \in units THEN RuntimeErr ELSE DockerNotFound)]
    /\ lastw' = Track(p)
    /\ installed' = Mark(p)

\* try: container.remove(force=True)
DeleteRemove(p) ==
    /\ call[p].pc = "delete_remove"
    /\ LET id == call[p].sid
       IN  /\ UNCHANGED <<fs, deleted>>
           /\ \/ /\ id \in units
                 /\ units' = units \ {id}
                 /\ call' = [Kill(call, id) EXCEPT
                               ![p] = [@ EXCEPT !.pc = "delete_rmtree", !.mut = TRUE]]
              \/ /\ UNCHANGED units
                 /\ call' = [call EXCEPT ![p] = [@ EXCEPT !.pc = "delete_rmtree",
                                   !.err = IF id \in units THEN RuntimeErr ELSE DockerNotFound]]
    /\ lastw' = Track(p)
    /\ installed' = Mark(p)

\* finally: shutil.rmtree(self.sandbox_dir(sandbox_id), ignore_errors=True)
DeleteRmtree(p) ==
    /\ call[p].pc = "delete_rmtree"
    /\ LET id == call[p].sid
           r == IF call[p].err = None THEN Ok ELSE call[p].err
       IN  /\ fs' = rmtree(fs, id)
           /\ call' = Orphan([call EXCEPT ![p] = Done([@ EXCEPT !.mut = @ \/ id \in dirs], r)],
                             fs')
           /\ deleted' = IF r = Ok /\ call[p].quiet THEN deleted \cup {id} ELSE deleted
           /\ UNCHANGED units
    /\ lastw' = Track(p)
    /\ installed' = Mark(p)

\* ------------------------------------------------- file-facing operations
\* if not base.exists(): self.get_container(sandbox_id); raise 404 "Sandbox directory missing"
Probe(p) ==
    /\ call[p].pc = "probe"
    /\ call' = [call EXCEPT ![p] =
                  Done([@ EXCEPT !.rt = 1],
                       IF call[p].sid \in units THEN DirMissing ELSE SandboxNotFound)]
    /\ UNCHANGED <<fs, units, deleted>>
    /\ lastw' = Track(p)
    /\ installed' = Mark(p)

\* the head of a file operation without the base.exists() test
Enter_NoExistsCheck(p, o, id, pth, c, allow_base, label) ==
    LET b == Begin(o, id, pth, c, label)
        sp == safe_path(sandbox_dir(id), pth, allow_base)
    IN  /\ call' = [call EXCEPT ![p] = IF sp.err # None THEN Done(b, sp.err) ELSE b]
        /\ UNCHANGED <<fs, units, deleted>>

\* the common head of a file operation: base.exists(), then safe_path
Enter(p, o, id, pth, c, allow_base, label) ==
    LET b == Begin(o, id, pth, c, label)
        sp == safe_path(sandbox_dir(id), pth, allow_base)
    IN  /\ call' = [call EXCEPT ![p] =
                      IF ~exists(fs, sandbox_dir(id)) THEN [b EXCEPT !.pc = "probe"]
                      ELSE IF sp.err # None THEN Done(b, sp.err)
                      ELSE b]
        /\ UNCHANGED <<fs, units, deleted>>

\* list_files: base.exists() and safe_path(base, dir, allow_base=True)
ListFiles(p, I, P) ==
    /\ call[p].pc = "idle"
    /\ \E id \in I, d \in P : Enter(p, "list", id, d, None, TRUE, "list_scan")
    /\ lastw' = Track(p)
    /\ installed' = Mark(p)

\* the characters of the file names, in ascending code-point order
Alphabet == <<".", "/", "_", "a", "c", "e", "g", "h", "k", "m", "n", "o", "p", "s", "t", "y">>
Rank(ch) == CHOOSE i \in 1..Len(Alphabet) : Alphabet[i] = ch
NameChars ==
    [n \in Names \cup {".python_packages", "pkg"} |->
        IF n = "a" THEN <<"a">>
        ELSE IF n = "m.py" THEN <<"m", ".", "p", "y">>
        ELSE IF n = "pkg" THEN <<"p", "k", "g">>
        ELSE <<".", "p", "y", "t", "h", "o", "n", "_", "p", "a", "c", "k", "a", "g", "e", "s">>]

\* str(p.relative_to(base)): the segments joined by "/"
RECURSIVE Str(_)
Str(rel) ==
    IF Len(rel) = 1 THEN NameChars[rel[1]]
    ELSE NameChars[Head(rel)] \o <<"/">> \o Str(Tail(rel))

\* s < t for Python strings: code point by code point, a proper prefix first
RECURSIVE StrLess(_, _)
StrLess(s, t) ==
    IF s = <<>> THEN t # <<>>
    ELSE IF t = <<>> THEN FALSE
    ELSE IF Head(s) # Head(t) THEN Rank(Head(s)) < Rank(Head(t))
    ELSE StrLess(Tail(s), Tail(t))

\* files.sort(): ascending by string comparison
RECURSIVE sort(_)
sort(S) ==
    IF S = {} THEN <<>>
    ELSE LET m == CHOOSE x \in S : \A y \in S \ {x} : StrLess(Str(x), Str(y))
         IN  <<m>> \o sort(S \ {m})

\* the regular files rglob("*") finds under list_dir, each relative_to(base)
rglob_files(f, base, list_dir) ==
    {SubSeq(n, Len(base) + 1, Len(n)) : n \in {m \in Nodes : IsProperPrefix(list_dir, m) /\ is_file(f, m)}}

\* list_files that returns the files in descending order, one of the orders rglob may produce
ListScan_NoSort(p) ==
    /\ call[p].pc = "list_scan"
    /\ LET d == Target(call[p])
           s == sort(rglob_files(fs, sandbox_dir(call[p].sid), d))
       IN  call' = [call EXCEPT ![p] =
                      IF is_dir(fs, d)
                      THEN Done([@ EXCEPT !.out = [i \in 1..Len(s) |-> s[Len(s) + 1 - i]]], Ok)
                      ELSE Done(@, DirNotFound)]
    /\ UNCHANGED <<fs, units, deleted>>
    /\ lastw' = Track(p)
    /\ installed' = Mark(p)

\* list_files: list_dir.exists(), is_dir(), rglob("*"), sort
ListScan(p) ==
    /\ call[p].pc = "list_scan"
    /\ LET d == Target(call[p])
       IN  call' = [call EXCEPT ![p] =
                      IF is_dir(fs, d)
                      THEN Done([@ EXCEPT !.out = sort(rglob_files(fs, sandbox_dir(call[p].sid), d))], Ok)
                      ELSE Done(@, DirNotFound)]
    /\ UNCHANGED <<fs, units, deleted>>
    /\ lastw' = Track(p)
    /\ installed' = Mark(p)

\* upsert_file that creates the parent of the unresolved path before safe_path checks it
UpsertFile_MkdirBeforeCheck(p, I, P, C) ==
    /\ call[p].pc = "idle"
    /\ \E id \in I, f \in P, c \in C :
         LET b == Begin("upsert", id, f, c, "upsert_mkdir")
             sp == safe_path(sandbox_dir(id), f, FALSE)
             d == Append(sandbox_dir(id), Head(lstrip(f)))
         IN  IF /\ exists(fs, sandbox_dir(id)) /\ sp.err # None
                /\ Len(lstrip(f)) > 1 /\ Head(lstrip(f)) \in Names /\ ~exists(fs, d)
             THEN /\ fs' = [fs EXCEPT ![d] = "dir"]
                  /\ call' = [call EXCEPT ![p] = Done(b, sp.err)]
                  /\ UNCHANGED <<units, deleted>>
             ELSE Enter(p, "upsert", id, f, c, FALSE, "upsert_mkdir")
    /\ lastw' = Track(p)
    /\ installed' = Mark(p)

\* upsert_file: base.exists() and safe_path(base, path)
UpsertFile(p, I, P, C) ==
    /\ call[p].pc = "idle"
    /\ \E id \in I, f \in P, c \in C : Enter(p, "upsert", id, f, c, FALSE, "upsert_mkdir")
    /\ lastw' = Track(p)
    /\ installed' = Mark(p)

\* target.parent.mkdir(parents=True, exist_ok=True)
UpsertMkdir(p) ==
    /\ call[p].pc = "upsert_mkdir"
    /\ LET d == Parent(Target(call[p]))
       IN  IF mkdir_fails(fs, d)
           THEN /\ call' = [call EXCEPT ![p] = Done(@, OSErr)]
                /\ UNCHANGED fs
           ELSE /\ fs' = mkdir_parents(fs, d)
                /\ call' = [call EXCEPT ![p] =
                              [@ EXCEPT !.pc = "upsert_open", !.mut = @ \/ fs' # fs]]
    /\ UNCHANGED <<units, deleted>>
    /\ lastw' = Track(p)
    /\ installed' = Mark(p)

\* write_text that opens the file without truncating it
UpsertOpen_NoTruncate(p) ==
    /\ call[p].pc = "upsert_open"
    /\ LET t == Target(call[p])
       IN  IF is_dir(fs, Parent(t)) /\ ~is_dir(fs, t)
           THEN /\ fs' = IF is_file(fs, t) THEN fs ELSE [fs EXCEPT ![t] = Truncated]
                /\ call' = [call EXCEPT ![p] =
                              [@ EXCEPT !.pc = "upsert_flush", !.mut = TRUE, !.linked = TRUE]]
           ELSE /\ call' = [call EXCEPT ![p] = Done(@, OSErr)]
                /\ UNCHANGED fs
    /\ UNCHANGED <<units, deleted>>
    /\ lastw' = Track(p)
    /\ installed' = Mark(p)

\* target.write_text: open(mode="w") creates the file or truncates it
UpsertOpen(p) ==
    /\ call[p].pc = "upsert_open"
    /\ LET t == Target(call[p])
       IN  IF is_dir(fs, Parent(t)) /\ ~is_dir(fs, t)
           THEN /\ fs' = [fs EXCEPT ![t] = Truncated]
                /\ call' = [call EXCEPT ![p] =
                              [@ EXCEPT !.pc = "upsert_flush", !.mut = TRUE, !.linked = TRUE]]
           ELSE /\ call' = [call EXCEPT ![p] = Done(@, OSErr)]
                /\ UNCHANGED fs
    /\ UNCHANGED <<units, deleted>>
    /\ lastw' = Track(p)
    /\ installed' = Mark(p)

\* the text a file holds after data is written at offset 0 over old
write_at_start(old, data) ==
    LET n == Len(Chars[data])
        chars == Chars[data] \o SubSeq(Chars[old], n + 1, Len(Chars[old]))
    IN  CHOOSE t \in FileTexts : Chars[t] = chars

\* target.write_text: f.write(data) and close put the data at offset 0 of the opened file
UpsertFlush(p) ==
    /\ call[p].pc = "upsert_flush"
    /\ LET t == Target(call[p])
       IN  /\ fs' = IF call[p].linked
                   THEN [fs EXCEPT ![t] = write_at_start(fs[t], call[p].content)]
                   ELSE fs
           /\ call' = [call EXCEPT ![p] = Done(@, Ok)]
    /\ UNCHANGED <<units, deleted>>
    /\ lastw' = Track(p)
    /\ installed' = Mark(p)

\* delete_file: base.exists() and safe_path(base, file_path)
DeleteFile(p, I, P) ==
    /\ call[p].pc = "idle"
    /\ \E id \in I, f \in P : Enter(p, "unlink", id, f, None, FALSE, "unlink_test")
    /\ lastw' = Track(p)
    /\ installed' = Mark(p)

\* delete_file that unlinks whatever exists at the path
DeleteFileTest_ExistsOnly(p) ==
    /\ call[p].pc = "unlink_test"
    /\ call' = [call EXCEPT ![p] =
                  IF exists(fs, Target(call[p])) THEN [@ EXCEPT !.pc = "unlink_do"]
                  ELSE Done(@, Ok)]
    /\ UNCHANGED <<fs, units, deleted>>
    /\ lastw' = Track(p)
    /\ installed' = Mark(p)

\* if target.exists() and target.is_file():
DeleteFileTest(p) ==
    /\ call[p].pc = "unlink_test"
    /\ call' = [call EXCEPT ![p] =
                  IF is_file(fs, Target(call[p])) THEN [@ EXCEPT !.pc = "unlink_do"]
                  ELSE Done(@, Ok)]
    /\ UNCHANGED <<fs, units, deleted>>
    /\ lastw' = Track(p)
    /\ installed' = Mark(p)

\* target.unlink()
DeleteFileUnlink(p) ==
    /\ call[p].pc = "unlink_do"
    /\ LET t == Target(call[p])
       IN  IF is_file(fs, t)
           THEN /\ fs' = [fs EXCEPT ![t] = "absent"]
                /\ call' = Orphan([call EXCEPT ![p] = Done([@ EXCEPT !.mut = TRUE], Ok)], fs')
           ELSE /\ call' = [call EXCEPT ![p] = Done(@, OSErr)]
                /\ UNCHANGED fs
    /\ UNCHANGED <<units, deleted>>
    /\ lastw' = Track(p)
    /\ installed' = Mark(p)

\* read_file: base.exists() and safe_path(base, file_path)
ReadFile(p, I, P) ==
    /\ call[p].pc = "idle"
    /\ \E id \in I, f \in P : Enter(p, "read", id, f, None, FALSE, "read_test")
    /\ lastw' = Track(p)
    /\ installed' = Mark(p)

\* if not target.exists(): 404; if not target.is_file(): 400
ReadFileTest(p) ==
    /\ call[p].pc = "read_test"
    /\ LET t == Target(call[p])
       IN  call' = [call EXCEPT ![p] =
                      IF ~exists(fs, t) THEN Done(@, FileNotFound)
                      ELSE IF ~is_file(fs, t) THEN Done(@, NotAFile)
                      ELSE [@ EXCEPT !.pc = "read_text"]]
    /\ UNCHANGED <<fs, units, deleted>>
    /\ lastw' = Track(p)
    /\ installed' = Mark(p)

\* return target.read_text(encoding="utf-8")
ReadFileText(p) ==
    /\ call[p].pc = "read_text"
    /\ LET t == Target(call[p])
       IN  call' = [call EXCEPT ![p] = Done(@, IF is_file(fs, t) THEN fs[t] ELSE OSErr)]
    /\ UNCHANGED <<fs, units, deleted>>
    /\ lastw' = Track(p)
    /\ installed' = Mark(p)

\* ---------------------------------------------------------------- execute
\* execute that tests the suffix only after the workspace-directory check
Execute_SuffixLate(p, I, P) ==
    /\ call[p].pc = "idle"
    /\ \E id \in I, f \in P :
         IF exists(fs, sandbox_dir(id)) /\ ~endswith_py(f)
         THEN /\ call' = [call EXCEPT ![p] = Done(Begin("execute", id, f, None, "idle"), OnlyPy)]
              /\ UNCHANGED <<fs, units, deleted>>
         ELSE Enter(p, "execute", id, f, None, FALSE, "exec_test")
    /\ lastw' = Track(p)
    /\ installed' = Mark(p)

\* execute: path.endswith(".py"), then base.exists() and safe_path(base, path)
Execute(p, I, P) ==
    /\ call[p].pc = "idle"
    /\ \E id \in I, f \in P :
         IF ~endswith_py(f)
         THEN /\ call' = [call EXCEPT ![p] = Done(Begin("execute", id, f, None, "idle"), OnlyPy)]
              /\ UNCHANGED <<fs, units, deleted>>
         ELSE Enter(p, "execute", id, f, None, FALSE, "exec_test")
    /\ lastw' = Track(p)
    /\ installed' = Mark(p)

\* if not target.exists() or not target.is_file(): 404 "File not found"
ExecuteTest(p) ==
    /\ call[p].pc = "exec_test"
    /\ call' = [call EXCEPT ![p] =
                  IF is_file(fs, Target(call[p])) THEN [@ EXCEPT !.pc = "exec_get"]
                  ELSE Done(@, FileNotFound)]
    /\ UNCHANGED <<fs, units, deleted>>
    /\ lastw' = Track(p)
    /\ installed' = Mark(p)

\* container = self.get_container(sandbox_id)
ExecuteGet(p) ==
    /\ call[p].pc = "exec_get"
    /\ call' = [call EXCEPT ![p] =
                  IF call[p].sid \in units THEN [@ EXCEPT !.pc = "exec_run", !.rt = 1]
                  ELSE Done([@ EXCEPT !.rt = 1], SandboxNotFound)]
    /\ UNCHANGED <<fs, units, deleted>>
    /\ lastw' = Track(p)
    /\ installed' = Mark(p)

\* cmd = ["python", str(Path(self.workdir_in_container) / path), *args];
\* container.exec_run(cmd, ...): the command starts in the unit
ExecuteRun(p) ==
    /\ call[p].pc = "exec_run"
    /\ \E ok \in BOOLEAN :
         call' = [call EXCEPT ![p] =
                    IF call[p].sid \notin units THEN Done(@, DockerNotFound)
                    ELSE IF ~ok THEN Done(@, RuntimeErr)
                    ELSE [@ EXCEPT !.pc = "exec_wait", !.ran = "started",
                                   !.cmdpath = PathJoin(WorkdirInContainer, call[p].path),
                                   !.pypath = pkg_dir,
                                   !.importable =
                                       is_file(fs, HostOf(call[p].sid, PkgFile(pkg_dir, <<"pkg">>)))]]
    /\ UNCHANGED <<fs, units, deleted>>
    /\ lastw' = Track(p)
    /\ installed' = Mark(p)

\* what exec_run gives back: the exit code of a command that ran to its end, a
\* runtime error, or, when the unit was removed under the command, either the
\* runtime's NotFound or the exit status of the killed command
exec_outcomes(c) ==
    IF c.ran = "killed" THEN {DockerNotFound, ExitKilled} ELSE {Exit0, Exit1, RuntimeErr}

\* exec_run returns or raises; return exit_code, stdout, stderr
ExecuteWait(p) ==
    /\ call[p].pc = "exec_wait"
    /\ \E r \in exec_outcomes(call[p]) :
         call' = [call EXCEPT ![p] =
                    Done([@ EXCEPT !.ran = IF r \in {Exit0, Exit1} THEN "completed" ELSE @,
                                   !.exit = r],
                         r)]
    /\ UNCHANGED <<fs, units, deleted>>
    /\ lastw' = Track(p)
    /\ installed' = Mark(p)

\* ------------------------------------------------------ install_packages
\* if not packages: 400; if not base.exists(): get_container, 404 (the same
\* lines in SandboxManager.install_packages and in main.py's handler)
InstallStart(p, o, I, K) ==
    /\ call[p].pc = "idle"
    /\ \E id \in I, k \in K :
         LET b == [Begin(o, id, NoPath, None, "install_get") EXCEPT !.pkgs = k]
         IN  call' = [call EXCEPT ![p] =
                        IF k = <<>> THEN Done(b, NoPackages)
                        ELSE IF ~exists(fs, sandbox_dir(id)) THEN [b EXCEPT !.pc = "probe"]
                        ELSE b]
    /\ UNCHANGED <<fs, units, deleted>>
    /\ lastw' = Track(p)
    /\ installed' = Mark(p)

\* SandboxManager.install_packages
InstallPackages(p, I, K) == InstallStart(p, "install", I, K)

\* the handler of POST /api/sandboxes/{sandbox_id}/packages in main.py
MainInstallPackages(p, I, K) == InstallStart(p, "main_install", I, K)

\* container = self.get_container(sandbox_id)
InstallGet(p) ==
    /\ call[p].pc = "install_get"
    /\ call' = [call EXCEPT ![p] =
                  IF call[p].sid \in units THEN [@ EXCEPT !.pc = "install_run", !.rt = 1]
                  ELSE Done([@ EXCEPT !.rt = 1], SandboxNotFound)]
    /\ UNCHANGED <<fs, units, deleted>>
    /\ lastw' = Track(p)
    /\ installed' = Mark(p)

\* container.exec_run(["python", "-m", "pip", "install", ...]): pip starts in the unit
InstallRun(p) ==
    /\ call[p].pc = "install_run"
    /\ \E ok \in BOOLEAN :
         call' = [call EXCEPT ![p] =
                    IF call[p].sid \notin units THEN Done(@, DockerNotFound)
                    ELSE IF ~ok THEN Done(@, RuntimeErr)
                    ELSE [@ EXCEPT !.pc = "install_wait", !.ran = "started"]]
    /\ UNCHANGED <<fs, units, deleted>>
    /\ lastw' = Track(p)
    /\ installed' = Mark(p)

\* pip can put the package under d: the workspace is there, d is no regular file and the
\* package's place no directory
can_install(f, id, d, pkgs) ==
    /\ HostOf(id, PkgFile(d, pkgs)) \in Nodes
    /\ is_dir(f, sandbox_dir(id))
    /\ ~is_file(f, HostOf(id, d))
    /\ ~is_dir(f, HostOf(id, PkgFile(d, pkgs)))

\* the workspace after pip install --target d ended with exit code 0
pip_install(f, id, d, pkgs) ==
    IF can_install(f, id, d, pkgs)
    THEN [f EXCEPT ![HostOf(id, d)] = "dir", ![HostOf(id, PkgFile(d, pkgs))] = PkgText]
    ELSE f

\* pip moves the package's file into place: a writer that had the old file open lost it
Replaced(c, f, f2) ==
    [q \in Procs |->
        IF c[q].pc = "upsert_flush"
           /\ f2[Resolve(sandbox_dir(c[q].sid), lstrip(c[q].path))]
              # f[Resolve(sandbox_dir(c[q].sid), lstrip(c[q].path))]
        THEN [c[q] EXCEPT !.linked = FALSE]
        ELSE c[q]]

\* exec_run returns or raises; SandboxManager.install_packages raises 400 with the
\* exit code, stdout and stderr when exit_code != 0, main.py's handler returns them
InstallWait(p) ==
    /\ call[p].pc = "install_wait"
    /\ \E r \in exec_outcomes(call[p]) :
         /\ r = Exit0 /\ exists(fs, sandbox_dir(call[p].sid))
            => can_install(fs, call[p].sid, target_dir, call[p].pkgs)
         /\ fs' = IF r = Exit0 THEN pip_install(fs, call[p].sid, target_dir, call[p].pkgs)
                  ELSE fs
         /\ call' = [Replaced(call, fs, fs') EXCEPT ![p] =
                       Done([@ EXCEPT !.ran = IF r \in {Exit0, Exit1} THEN "completed" ELSE @,
                                      !.exit = r,
                                      !.mut = fs' # fs],
                            IF call[p].op = "install" /\ r \in {Exit1, ExitKilled}
                            THEN InstallFailed ELSE r)]
    /\ UNCHANGED <<units, deleted>>
    /\ lastw' = Track(p)
    /\ installed' = Mark(p)

\* ------------------------------------------------------- specifications
\* the paths and contents the concurrent specification draws requests from
ConcPaths == {<<"m.py">>, <<"">>}
ConcContents == {"c1"}

\* the response reaches the caller and the thread takes the next request
Return(p) ==
    /\ call[p].pc = "done"
    /\ call' = [call EXCEPT ![p] = Idle]
    /\ UNCHANGED <<fs, units, deleted>>
    /\ lastw' = Track(p)
    /\ installed' = Mark(p)

\* the package lists the concurrent specification draws requests from
ConcPkgs == {<<"pkg">>}

\* a step of thread p: requests name ids of I, paths of P and contents of C; package
\* installs name ids of J and package lists of K
Step(p, I, J, P, C, K) ==
    \/ CreateSandbox(p, I) \/ CreateRun(p) \/ CreateCleanup(p)
    \/ DeleteSandbox(p, I) \/ DeleteRemove(p) \/ DeleteRmtree(p)
    \/ Probe(p)
    \/ ListFiles(p, I, P) \/ ListScan(p)
    \/ UpsertFile(p, I, P, C) \/ UpsertMkdir(p) \/ UpsertOpen(p) \/ UpsertFlush(p)
    \/ DeleteFile(p, I, P) \/ DeleteFileTest(p) \/ DeleteFileUnlink(p)
    \/ ReadFile(p, I, P) \/ ReadFileTest(p) \/ ReadFileText(p)
    \/ Execute(p, I, P) \/ ExecuteTest(p) \/ ExecuteGet(p) \/ ExecuteRun(p) \/ ExecuteWait(p)
    \/ InstallPackages(p, J, K) \/ InstallGet(p) \/ InstallRun(p) \/ InstallWait(p)
    \/ Return(p)

\* request threads run manager calls concurrently, with no locking; packages are
\* installed into the first id
Next == \E p \in Procs : Step(p, IDs, {IdNames[1]}, ConcPaths, ConcContents, ConcPkgs)
Spec == Init /\ [][Next]_vars

\* one caller at a time on one sandbox id, every request path of at most MaxSegs segments
NextSeq ==
    \/ Step(1, {IdNames[1]}, {IdNames[1]}, AllPaths, Contents, PkgLists)
    \/ MainInstallPackages(1, {IdNames[1]}, PkgLists)
SpecSeq == Init /\ [][NextSeq]_vars

\* two request threads on one sandbox id and one path, writing both contents
NextRace ==
    \E p \in Procs : Step(p, {IdNames[1]}, {IdNames[1]}, {<<"m.py">>}, Contents, ConcPkgs)
SpecRace == Init /\ [][NextRace]_vars

\* one request thread on one sandbox id, installing a package, running a module and
\* writing or deleting the module and the installed package's file
PkgPaths == {<<"m.py">>, <<".python_packages", "pkg">>}
NextPkg ==
    \/ Step(1, {IdNames[1]}, {IdNames[1]}, PkgPaths, ConcContents, ConcPkgs)
    \/ MainInstallPackages(1, {IdNames[1]}, ConcPkgs)
SpecPkg == Init /\ [][NextPkg]_vars

\* create_sandbox, delete_sandbox and upsert_file on one sandbox id, with
\* progress: a request thread that is inside a call takes its next step, a
\* client that retries delete_sandbox gets its call started, and the runtime
\* does not fail a removal forever
RetryId == IdNames[1]
DeleteRemoveOk(p) == DeleteRemove(p) /\ units' # units
StartDelete(p) == DeleteSandbox(p, {RetryId})
Continue(p) ==
    \/ CreateRun(p) \/ CreateCleanup(p)
    \/ DeleteRemove(p) \/ DeleteRmtree(p)
    \/ Probe(p)
    \/ UpsertMkdir(p) \/ UpsertOpen(p) \/ UpsertFlush(p)
    \/ Return(p)
NextRetry ==
    \E p \in Procs :
        \/ CreateSandbox(p, {RetryId})
        \/ UpsertFile(p, {RetryId}, {<<"m.py">>}, {"c1"})
        \/ StartDelete(p)
        \/ Continue(p)
SpecRetry ==
    /\ Init /\ [][NextRetry]_vars
    /\ \A p \in Procs :
         /\ WF_vars(Continue(p))
         /\ WF_vars(StartDelete(p))
         /\ SF_vars(DeleteRemoveOk(p))

\* ------------------------------------------------------------ vocabulary
NotFoundErrors == {SandboxNotFound, DirMissing, DirNotFound, FileNotFound}
RemovalErrors == {RuntimeErr, DockerNotFound}
StartErrors == {RuntimeErr, NameConflict}
Successes == {Ok, Exit0, Exit1, ExitKilled} \cup FileTexts
FileOps == {"list", "upsert", "unlink", "read", "execute"}
InstallOps == {"install", "main_install"}

\* no manager call is in progress
Quiescent == \A p \in Procs : call[p].pc \in {"idle", "done"}

\* the step in which p's call returns to its caller
Returns(p) == call[p].pc # "done" /\ call'[p].pc = "done"

\* the request path resolves to the workspace root itself
ToRoot(c) == Resolve(sandbox_dir(c.sid), lstrip(c.path)) = sandbox_dir(c.sid)

\* ----------------------------------------------------------------- C1
\* C1: whenever no manager call is in progress, every sandbox id has its
\* workspace directory if and only if it has its execution unit.
C1_DirIffUnit ==
    Quiescent => \A id \in IDs : (id \in dirs) <=> (id \in units)

\* ----------------------------------------------------------------- C2
\* C2: a create_sandbox whose unit start failed after it created the
\* workspace directory returns the runtime's error, and the directory of its
\* id is gone when it returns.
C2_CreateFailureCleansUp ==
    [][\A p \in Procs :
         (/\ Returns(p)
          /\ call[p].op = "create"
          /\ call'[p].result \notin IDs)
         => /\ call'[p].result \in StartErrors
            /\ call'[p].result = call[p].err
            /\ call[p].sid \notin dirs']_vars

C2_Witness ==
    \E p \in Procs :
        /\ call[p].pc = "done" /\ call[p].op = "create"
        /\ call[p].result = RuntimeErr /\ call[p].mut
        /\ call[p].sid \notin dirs

\* ----------------------------------------------------------------- C3
\* C3: a delete_sandbox that found the unit and whose forced removal failed
\* still removes the workspace directory, and returns the removal's error.
C3_RemoveFailureStillRemovesDir ==
    [][\A p \in Procs :
         (/\ Returns(p)
          /\ call'[p].op = "delete"
          /\ (call'[p].err # None \/ call'[p].result \in RemovalErrors))
         => /\ call'[p].result \in RemovalErrors
            /\ call'[p].result = call'[p].err
            /\ call'[p].sid \notin dirs']_vars

C3_Witness ==
    \E p \in Procs :
        /\ call[p].pc = "done" /\ call[p].op = "delete"
        /\ call[p].result = RuntimeErr /\ call[p].mut
        /\ call[p].sid \in units /\ call[p].sid \notin dirs

\* ----------------------------------------------------------------- C4
\* C4: on every exit path of delete_sandbox(id), also when the unit lookup
\* fails with NotFound, the workspace directory of id is gone when the call
\* returns (stated for a delete_sandbox that runs with no other call in
\* progress).
C4_DeleteAlwaysRemovesDir ==
    [][\A p \in Procs :
         (/\ Returns(p)
          /\ call'[p].op = "delete"
          /\ \A q \in Procs \ {p} : call[q].pc \in {"idle", "done"})
         => call'[p].sid \notin dirs']_vars

\* ----------------------------------------------------------------- C5
\* C5: a list_files(id) that starts after a delete_sandbox(id) returned
\* normally (and no create_sandbox worked on id since) fails with NotFound.
C5_ListAfterDeleteNotFound ==
    \A p \in Procs :
        (call[p].pc = "done" /\ call[p].op = "list" /\ call[p].after)
        => call[p].result \in NotFoundErrors

\* ----------------------------------------------------------------- C6
\* C6: a delete_sandbox(id) that starts after a delete_sandbox(id) returned
\* normally, with no create_sandbox on id in between, fails with NotFound
\* and changes neither the units nor the workspace directories.
C6_SecondDeleteNotFound ==
    [][\A p \in Procs :
         (/\ call[p].pc = "idle"
          /\ call'[p].op = "delete"
          /\ call'[p].sid \in deleted)
         => /\ call'[p].pc = "done"
            /\ call'[p].result = SandboxNotFound
            /\ units' = units
            /\ fs' = fs]_vars

C6_Witness ==
    \E p \in Procs :
        /\ call[p].pc = "done" /\ call[p].op = "delete"
        /\ call[p].after /\ call[p].result = SandboxNotFound

\* ----------------------------------------------------------------- C7
\* C7: no file operation on id returns successfully at a moment when exactly
\* one of the workspace directory and the execution unit of id exists.
C7_NoIntermediateStateObserved ==
    [][\A p \in Procs :
         (/\ Returns(p)
          /\ call'[p].op \in FileOps
          /\ call'[p].result \in Successes)
         => ((call'[p].sid \in dirs) <=> (call'[p].sid \in units))]_vars

\* ----------------------------------------------------------------- C8
\* a request path without ".." segments
NoTraversal(pth) == \A i \in 1..Len(pth) : pth[i] # ".."

\* safe_path returns a strict descendant of the root (or the root when
\* allow_base is set) or fails with InvalidPath; a path without traversal
\* segments never resolves outside the root; a path resolving outside fails
SafePathIsBoundary ==
    \A id \in IDs, pth \in AllPaths, ab \in BOOLEAN :
        LET base == sandbox_dir(id)
            r == safe_path(base, pth, ab)
            q == Resolve(base, lstrip(pth))
        IN  /\ r.err \in {None, InvalidPath}
            /\ r.err = None => (IsProperPrefix(base, r.p) \/ (ab /\ r.p = base))
            /\ NoTraversal(pth) => IsPrefix(base, q)
            /\ ~IsPrefix(base, q) => r.err = InvalidPath

\* C8: safe_path is a workspace boundary, and consequently every location a
\* file operation or execute works on lies inside the sandbox's workspace:
\* on the host under the workspace directory, in the unit under its mount.
C8_NothingOutsideWorkspace ==
    /\ SafePathIsBoundary
    /\ \A p \in Procs :
         /\ call[p].pc \in {"list_scan", "upsert_mkdir", "upsert_open", "upsert_flush", "unlink_test",
                            "unlink_do", "read_test", "read_text", "exec_test"}
            => IsPrefix(sandbox_dir(call[p].sid), Target(call[p]))
         /\ call[p].cmdpath # NoPath
            => IsProperPrefix(WorkdirInContainer, call[p].cmdpath)

\* ----------------------------------------------------------------- C9
\* C9 as claimed: on a sandbox whose workspace directory exists, a path that
\* resolves to the workspace root is rejected with InvalidPath by upsert_file,
\* delete_file, read_file and execute.
C9_RootRejectedWithInvalidPath ==
    \A p \in Procs :
        (/\ call[p].pc = "done"
         /\ call[p].op \in {"upsert", "unlink", "read", "execute"}
         /\ call[p].sid \in dirs
         /\ ToRoot(call[p]))
        => call[p].result = InvalidPath

\* C9 amended: with one caller at a time, a path that resolves to the
\* workspace root is rejected by upsert_file, delete_file and read_file with
\* InvalidPath when the workspace directory exists and with NotFound when it
\* does not, is rejected by execute with "Only .py files can be executed"
\* (InvalidRequest) in every state, and is accepted by list_files alone; none
\* of these calls changes anything, and no step of a file operation turns the
\* workspace root into a file or removes it.
C9_RootRejected ==
    [][/\ \A p \in Procs :
            (call'[p].pc = "done" /\ call'[p].op \in FileOps /\ ToRoot(call'[p]))
            => /\ ~call'[p].mut
               /\ call'[p].op \in {"upsert", "unlink", "read"}
                  => call'[p].result = IF call'[p].sid \in dirs' THEN InvalidPath
                                       ELSE IF call'[p].sid \in units' THEN DirMissing
                                       ELSE SandboxNotFound
               /\ call'[p].op = "execute" => call'[p].result = OnlyPy
               /\ call'[p].op = "list"
                  => call'[p].result = IF call'[p].sid \in dirs' THEN Ok
                                       ELSE IF call'[p].sid \in units' THEN DirMissing
                                       ELSE SandboxNotFound
       /\ \A p \in Procs, id \in IDs :
            (call[p].op \in FileOps /\ call'[p] # call[p] /\ call[p].pc \notin {"idle", "done"})
            => /\ fs'[sandbox_dir(id)] \notin FileTexts
               /\ fs[sandbox_dir(id)] = "dir" => fs'[sandbox_dir(id)] = "dir"]_vars

C9_Witness ==
    \E p \in Procs :
        /\ call[p].pc = "done" /\ call[p].op = "upsert" /\ ToRoot(call[p])
        /\ call[p].sid \in dirs /\ call[p].result = InvalidPath

\* ---------------------------------------------------------------- C10
\* C10: execute with a path that does not end in ".py" fails with "Only .py
\* files can be executed" having contacted the runtime not at all and changed
\* nothing, whatever the state of the sandbox.
C10_SuffixCheckedFirst ==
    \A p \in Procs :
        (call[p].pc = "done" /\ call[p].op = "execute" /\ ~endswith_py(call[p].path))
        => /\ call[p].result = OnlyPy
           /\ call[p].rt = 0
           /\ ~call[p].mut

C10_Witness ==
    \E p \in Procs :
        /\ call[p].pc = "done" /\ call[p].op = "execute" /\ ~endswith_py(call[p].path)
        /\ call[p].result = OnlyPy
        /\ call[p].sid \notin dirs /\ call[p].sid \notin units

\* ---------------------------------------------------------------- C11
\* the exit codes exec_run reports
ExitCodes == {Exit0, Exit1, ExitKilled}

\* C11: when the command ran to its end with a non-zero exit code, execute
\* returns that exit code normally, and install_packages (the manager's and
\* the one main.py serves) fails with the request-level error that carries
\* the exit code; install_packages returns normally only with exit code 0.
C11_ExitCodeAsymmetry ==
    \A p \in Procs :
        (call[p].pc = "done" /\ call[p].exit \in ExitCodes)
        => /\ call[p].op = "execute" => call[p].result = call[p].exit
           /\ call[p].op \in InstallOps
              => /\ call[p].exit # Exit0 => call[p].result = InstallFailed
                 /\ call[p].result \in Successes => call[p].exit = Exit0

FilesUnder(id, d) ==
    {SubSeq(n, Len(sandbox_dir(id)) + 1, Len(n)) :
        n \in {m \in Nodes : IsProperPrefix(d, m) /\ fs[m] \in FileTexts}}

\* how often x occurs in the listing
Occurrences(out, x) == Cardinality({i \in 1..Len(out) : out[i] = x})

\* C13: the listing list_files returns holds exactly the regular files
\* currently under the listed directory (for the root: in the workspace),
\* each once, as root-relative paths in ascending string order; the file of
\* the latest upsert_file is one of them.
C13_ListingExactSorted ==
    \A p \in Procs :
        (call[p].pc = "done" /\ call[p].op = "list" /\ call[p].result = Ok)
        => LET id == call[p].sid
               out == call[p].out
               d == Target(call[p])
           IN  /\ \A x \in FilesUnder(id, d) : Occurrences(out, x) = 1
               /\ \A i \in 1..Len(out) : out[i] \in FilesUnder(id, d)
               /\ \A i, j \in 1..Len(out) : i < j => StrLess(Str(out[i]), Str(out[j]))
               /\ (lastw.sid = id /\ ToRoot(call[p]))
                  => Occurrences(out, SubSeq(lastw.node, Len(sandbox_dir(id)) + 1,
                                             Len(lastw.node))) = 1

C13_Witness ==
    \E p \in Procs :
        /\ call[p].pc = "done" /\ call[p].op = "list" /\ call[p].result = Ok
        /\ ToRoot(call[p]) /\ lastw.sid = call[p].sid
        /\ Len(call[p].out) = 2

\* ---------------------------------------------------------------- C14
\* C14: a delete_file whose path names no regular file (nothing, or a
\* directory) returns normally and changes nothing; this is also what a
\* repeated delete_file finds after the first one removed the file.
C14_DeleteFileNoOp ==
    [][\A p \in Procs :
         (/\ call[p].pc = "unlink_test"
          /\ call'[p] # call[p]
          /\ ~is_file(fs, Target(call[p])))
         => /\ call'[p].pc = "done"
            /\ call'[p].result = Ok
            /\ ~call'[p].mut
            /\ fs' = fs
            /\ units' = units]_vars

C14_Witness ==
    \E p \in Procs :
        /\ call[p].pc = "done" /\ call[p].op = "unlink" /\ call[p].result = Ok
        /\ ~call[p].mut
        /\ is_dir(fs, Target(call[p]))
        /\ \E n \in Nodes : is_file(fs, n)

\* ---------------------------------------------------------------- C15
\* C15: a file operation, an execute of a ".py" path or an install_packages
\* of a non-empty list that finds no workspace directory does nothing but
\* look the unit up, and fails with "Sandbox directory missing" when the unit
\* exists and "Sandbox not found" when it does not (NotFound both); it
\* creates no directory, writes no file and runs no command.
C15_MissingDirIsNotFound ==
    [][\A p \in Procs :
         /\ (/\ call[p].pc = "idle"
             /\ call'[p].op \in FileOps \cup InstallOps
             /\ call'[p].sid \notin dirs
             /\ call'[p].op = "execute" => endswith_py(call'[p].path)
             /\ call'[p].op \in InstallOps => call'[p].pkgs # <<>>)
            => /\ call'[p].pc = "probe"
               /\ fs' = fs
               /\ units' = units
         /\ (call[p].pc = "probe" /\ call'[p] # call[p])
            => /\ call'[p].pc = "done"
               /\ call'[p].result = IF call[p].sid \in units THEN DirMissing
                                     ELSE SandboxNotFound
               /\ call'[p].result \in NotFoundErrors
               /\ ~call'[p].mut
               /\ call'[p].ran = "no"
               /\ fs' = fs
               /\ units' = units]_vars

C15_Witness ==
    \E p \in Procs :
        /\ call[p].pc = "done" /\ call[p].op = "upsert" /\ call[p].result = DirMissing
        /\ call[p].sid \in units /\ call[p].sid \notin dirs

\* ---------------------------------------------------------------- C16
\* C16: an execute or install_packages whose unit is removed by a
\* delete_sandbox before its command starts or while it runs returns an
\* error, never an (exit_code, stdout, stderr) result.
C16_RemovedUnitIsAnError ==
    [][\A p \in Procs :
         (/\ Returns(p)
          /\ call'[p].op \in {"execute"} \cup InstallOps
          /\ \/ call'[p].ran = "killed"
             \/ call[p].pc \in {"exec_get", "exec_run", "install_get", "install_run"}
                /\ call[p].sid \notin units)
         => call'[p].result \notin Successes]_vars

\* ---------------------------------------------------------------- C17
\* no upsert_file is in progress
NoWriter == \A q \in Procs : call[q].pc \notin {"upsert_mkdir", "upsert_open", "upsert_flush"}

\* C17: once the upsert_file calls on a path have returned, a read_file that
\* reads the file returns the content of the upsert_file that returned last.
C17_LastWriterWins ==
    [][\A p \in Procs :
         (/\ Returns(p) /\ call[p].pc = "read_text"
          /\ call[p].sid = lastw.sid /\ Target(call[p]) = lastw.node
          /\ NoWriter)
         => /\ call'[p].result \in Contents
            /\ call'[p].result = lastw.content]_vars

\* ---------------------------------------------------------------- C18
\* a step that is not the start of a call other than delete_sandbox
RetryOnly == \E p \in Procs : StartDelete(p) \/ Continue(p)

\* C18: if from some point on the only calls that start are delete_sandbox
\* retries, then eventually neither the workspace directory nor the unit of
\* the sandbox remains, for good.
C18_RetriedDeleteCleansUp ==
    <>[][RetryOnly]_vars => <>[](RetryId \notin dirs /\ RetryId \notin units)

\* ---------------------------------------------------------------- C19
ValidationErrors == {InvalidPath, OnlyPy, NoPackages, NotAFile}

\* C19: a call that fails with InvalidPath or InvalidRequest has changed
\* neither the workspace (files and directories) nor the units, in none of
\* its steps, and has run no command and contacted no unit.
C19_ValidationBeforeEffects ==
    [][\A p \in Procs :
         (Returns(p) /\ call'[p].result \in ValidationErrors)
         => /\ fs' = fs
            /\ units' = units
            /\ ~call'[p].mut
            /\ call'[p].ran = "no"
            /\ call'[p].rt = 0
            /\ call[p].pc \in {"idle", "read_test"}]_vars

C19_Witness ==
    \E p \in Procs :
        /\ call[p].pc = "done" /\ call[p].op = "upsert" /\ call[p].result = InvalidPath
        /\ ~ToRoot(call[p]) /\ Len(call[p].path) = 2
        /\ call[p].sid \in dirs

\* ---------------------------------------------------------------- C20
\* C20: create_sandbox never returns an id that names an existing sandbox:
\* a call whose id has a workspace directory when it starts fails at once
\* and changes nothing, and a call returns its id only in the step in which
\* it adds the unit of that id, which was not there, to a directory the call
\* made itself.
C20_CreatedIdIsFresh ==
    [][\A p \in Procs :
         /\ (/\ call[p].pc = "idle"
             /\ call'[p].op = "create"
             /\ call'[p].sid \in dirs)
            => /\ call'[p].pc = "done"
               /\ call'[p].result = OSErr
               /\ fs' = fs
               /\ units' = units
         /\ (Returns(p) /\ call'[p].op = "create" /\ call'[p].result \in IDs)
            => /\ call'[p].result = call[p].sid
               /\ call[p].pc = "create_run"
               /\ call[p].sid \notin units
               /\ call[p].sid \in units'
               /\ call[p].mut]_vars

C20_Witness ==
    \E p, q \in Procs :
        /\ call[p].pc = "done" /\ call[p].op = "create" /\ call[p].result = OSErr
        /\ call[q].pc = "done" /\ call[q].op = "create" /\ call[q].result = call[p].sid

\* ---------------------------------------------------------------- C21
\* thread p starts the command of an execute
ExecStarts(p) == call[p].pc = "exec_run" /\ call'[p].pc = "exec_wait"

\* C21 as stated: after an install_packages on an id that got exit code 0,
\* every execute on the id that starts its command before a delete_sandbox
\* of the id has the install target directory on its module search path and
\* finds the installed package there.
C21_InstalledPackagesPersist ==
    [][\A p \in Procs :
         ExecStarts(p) /\ installed[call[p].sid] # "no"
         => /\ call'[p].pypath = target_dir
            /\ call'[p].importable]_vars

\* C21, amended: the install target directory and the directory execute puts
\* on the module search path are one location under the workspace mount, and
\* after an install_packages on an id that got exit code 0, every execute on
\* the id that starts its command before a delete_sandbox of the id, or an
\* upsert_file or delete_file on a path under that directory, finds the
\* installed package there.
C21_PackagesPersistWhileUntouched ==
    [][\A p \in Procs :
         ExecStarts(p)
         => /\ call'[p].pypath = target_dir
            /\ IsPrefix(WorkdirInContainer, target_dir)
            /\ IsPrefix(sandbox_dir(call[p].sid), HostOf(call[p].sid, call'[p].pypath))
            /\ installed[call[p].sid] = "yes" => call'[p].importable]_vars

\* an execute started its command after an install and found the package
C21_Witness ==
    \E p \in Procs :
        /\ call[p].pc = "exec_wait"
        /\ installed[call[p].sid] = "yes"
        /\ call[p].pypath = target_dir
        /\ call[p].importable

\* ---------------------------------------------------------------- C22
\* what create_sandbox raises on an id collision: FileExistsError from
\* mkdir(exist_ok=False), the runtime's 409 Conflict from containers.run(name=...)
ConflictErrors == {OSErr, NameConflict}

\* thread p takes a step of a create_sandbox
CreateStep(p) == call'[p].op = "create" /\ call'[p] # call[p]

====
